---------------------------- MODULE Spec2Model ----------------------------
(***************************************************************************)
(* telebot.states.asyncio.context.StateContext: a facade that resolves the *)
(* addressing tuple of an update and forwards each operation to the bot's  *)
(* state storage.                                                          *)
(*                                                                         *)
(* The five await-ing methods (set, get, delete, reset_data, add_data) are *)
(* two steps each: the method body up to the external call (resolution and *)
(* the call itself), and the completion of the awaited external coroutine, *)
(* whose outcome the method hands to its caller.  data() is not a          *)
(* coroutine and awaits nothing: it is one step.                           *)
(***************************************************************************)
EXTENDS Integers, Sequences, FiniteSets, TLC

(***************************************************************************)
(* Bounds of the model.                                                    *)
(***************************************************************************)
\* the number of facade operations started in one behaviour of Spec
MaxOps == 3
\* the number of facade operations started in one behaviour of SpecSeq
MaxSeqOps == 6
\* the number of facade operations started in one behaviour of SpecBot
MaxBotOps == 3

(***************************************************************************)
(* Python values.  Every value is a record of one shape, so that values of *)
(* different Python types can be compared: `type' is the Python type, `s'  *)
(* the text of a str / the name of a State / the name of an exception,     *)
(* `d' the items of a dict.                                                *)
(***************************************************************************)
PyNone == [type |-> "NoneType", s |-> "None", d |-> {}]
PyTrue == [type |-> "bool", s |-> "True", d |-> {}]
PyStr(t) == [type |-> "str", s |-> t, d |-> {}]
PyState(n) == [type |-> "State", s |-> n, d |-> {}]
PyDict(items) == [type |-> "dict", s |-> "", d |-> items]
PyError(e) == [type |-> "Exception", s |-> e, d |-> {}]

\* ids that are absent (Python's None in an id position)
None == "None"

\* what a handler passes to set(): a State object or a state name
SetArgs == {PyState("A"), PyStr("A"), PyStr("B")}
\* what a handler passes to add_data(**kwargs)
KwargsArgs == {{<<"x", "1">>}, {<<"x", "2">>}}
\* what the external storage call may raise
Errors == {"StorageError"}

BotIds == {10, 20}
Contexts == {1, 2}

\* the updates a StateContext is built from
Messages ==
    { [kind |-> "Message", chat_id |-> 1, from_user_id |-> 2,
       business_connection_id |-> None, message_thread_id |-> None],
      [kind |-> "Message", chat_id |-> 2, from_user_id |-> 1,
       business_connection_id |-> None, message_thread_id |-> None],
      [kind |-> "CallbackQuery", chat_id |-> 1, from_user_id |-> 2,
       business_connection_id |-> "bc1", message_thread_id |-> "t7"] }

ChatIds == {1, 2}
UserIds == {1, 2}
\* business-connection ids and message-thread ids, both optional
OptionalIds == {None, "bc1", "t7"}

\* the addressing tuples: (chat id, user id, business-connection id, bot id,
\* message-thread id)
Keys == ChatIds \X UserIds \X OptionalIds \X BotIds \X OptionalIds

VARIABLES
    bot_id,     \* self.bot.bot_id: the bot's own attribute
    ctx,        \* ctx[i]: the fields of StateContext i (message, bot_id)
    pending,    \* pending[i]: the method of i that awaits its external call
    store,      \* the external state storage, by addressing tuple
    last,       \* the facade operation that completed last
    invoked,    \* the external operations called so far
    expect,     \* expect[k]: the name a completed set() left on k, untouched since
    nops        \* facade operations started

vars == <<bot_id, ctx, pending, store, last, invoked, expect, nops>>

(***************************************************************************)
(* The external collaborators.                                             *)
(***************************************************************************)
\* telebot.states.resolve_context
resolve_context(message, bid) ==
    <<message.chat_id, message.from_user_id, message.business_connection_id,
      bid, message.message_thread_id>>

NoArg == PyNone
NoCall ==
    [op |-> "none", chat_id |-> 0, user_id |-> 0, business_connection_id |-> None,
     bot_id |-> 0, message_thread_id |-> None, state |-> NoArg, kwargs |-> {}]

\* the addressing tuple an external call carries
CallKey(call) ==
    <<call.chat_id, call.user_id, call.business_connection_id, call.bot_id,
      call.message_thread_id>>

EmptyEntry == [state |-> PyNone, data |-> {}]

\* dict.update
Update(data, kwargs) ==
    {p \in data : \A q \in kwargs : q[1] # p[1]} \cup kwargs

\* what the storage holds for the call's tuple once the call has returned
StoreEffect(call, entry) ==
    CASE call.op = "set_state" -> [entry EXCEPT !.state = call.state]
      [] call.op = "delete_state" -> EmptyEntry
      [] call.op = "reset_data" -> [entry EXCEPT !.data = {}]
      [] call.op = "add_data" -> [entry EXCEPT !.data = Update(entry.data, call.kwargs)]
      [] OTHER -> entry

\* what the external call returns
StoreReturn(call, entry) ==
    CASE call.op = "get_state" -> entry.state
      [] call.op = "retrieve_data" -> PyDict(entry.data)
      [] call.op = "add_data" -> PyNone
      [] OTHER -> PyTrue

Returned(v) == [kind |-> "return", v |-> v]
Raised(e) == [kind |-> "raise", v |-> PyError(e)]

(***************************************************************************)
(* StateContext.  `self' is the record of the instance's fields; self.bot  *)
(* is the one bot, whose bot_id attribute is the variable bot_id.          *)
(***************************************************************************)
NoPending == [method |-> "none", arg |-> NoArg, calls |-> <<>>]
NoLast ==
    [ctx |-> 0, method |-> "none", arg |-> NoArg, call |-> NoCall,
     pre |-> EmptyEntry, ext |-> Returned(PyNone), result |-> Returned(PyNone)]
NoExpect == "?"

\* isinstance(state, State)
isinstance_State(state) == state.type = "State"

\* set() without the conversion: the State object itself is forwarded
state_name_unconverted(state) == state

\* `if isinstance(state, State): state = state.name'
state_name(state) == IF isinstance_State(state) THEN PyStr(state.s) ELSE state

\* set() with chat id and user id passed in each other's parameter
set_call_swapped(self, state) ==
    LET c == resolve_context(self.message, bot_id)
    IN  [op |-> "set_state", chat_id |-> c[2], user_id |-> c[1],
         business_connection_id |-> c[3], bot_id |-> c[4],
         message_thread_id |-> c[5], state |-> state_name(state), kwargs |-> {}]

\* the external call of set(): self.bot.set_state(...)
set_call(self, state) ==
    LET c == resolve_context(self.message, bot_id)
    IN  [op |-> "set_state", chat_id |-> c[1], user_id |-> c[2],
         business_connection_id |-> c[3], bot_id |-> c[4],
         message_thread_id |-> c[5], state |-> state_name(state), kwargs |-> {}]

\* get() resolving with the bot id the constructor captured
get_call_captured(self) ==
    LET c == resolve_context(self.message, self.bot_id)
    IN  [op |-> "get_state", chat_id |-> c[1], user_id |-> c[2],
         business_connection_id |-> c[3], bot_id |-> c[4],
         message_thread_id |-> c[5], state |-> NoArg, kwargs |-> {}]

\* get() with chat id and user id passed in each other's parameter
get_call_swapped(self) ==
    LET c == resolve_context(self.message, bot_id)
    IN  [op |-> "get_state", chat_id |-> c[2], user_id |-> c[1],
         business_connection_id |-> c[3], bot_id |-> c[4],
         message_thread_id |-> c[5], state |-> NoArg, kwargs |-> {}]

\* the external call of get(): self.bot.get_state(...)
get_call(self) ==
    LET c == resolve_context(self.message, bot_id)
    IN  [op |-> "get_state", chat_id |-> c[1], user_id |-> c[2],
         business_connection_id |-> c[3], bot_id |-> c[4],
         message_thread_id |-> c[5], state |-> NoArg, kwargs |-> {}]

\* delete() calling reset_data: the data dropped, the state kept
delete_call_reset(self) ==
    LET c == resolve_context(self.message, bot_id)
    IN  [op |-> "reset_data", chat_id |-> c[1], user_id |-> c[2],
         business_connection_id |-> c[3], bot_id |-> c[4],
         message_thread_id |-> c[5], state |-> NoArg, kwargs |-> {}]

\* the external call of delete(): self.bot.delete_state(...)
delete_call(self) ==
    LET c == resolve_context(self.message, bot_id)
    IN  [op |-> "delete_state", chat_id |-> c[1], user_id |-> c[2],
         business_connection_id |-> c[3], bot_id |-> c[4],
         message_thread_id |-> c[5], state |-> NoArg, kwargs |-> {}]

\* reset_data() calling delete_state: the state dropped with the data
reset_data_call_delete(self) ==
    LET c == resolve_context(self.message, bot_id)
    IN  [op |-> "delete_state", chat_id |-> c[1], user_id |-> c[2],
         business_connection_id |-> c[3], bot_id |-> c[4],
         message_thread_id |-> c[5], state |-> NoArg, kwargs |-> {}]

\* the external call of reset_data(): self.bot.reset_data(...)
reset_data_call(self) ==
    LET c == resolve_context(self.message, bot_id)
    IN  [op |-> "reset_data", chat_id |-> c[1], user_id |-> c[2],
         business_connection_id |-> c[3], bot_id |-> c[4],
         message_thread_id |-> c[5], state |-> NoArg, kwargs |-> {}]

\* data() calling get_state instead of retrieve_data
data_call_get_state(self) ==
    LET c == resolve_context(self.message, bot_id)
    IN  [op |-> "get_state", chat_id |-> c[1], user_id |-> c[2],
         business_connection_id |-> c[3], bot_id |-> c[4],
         message_thread_id |-> c[5], state |-> NoArg, kwargs |-> {}]

\* the external call of data(): self.bot.retrieve_data(...)
data_call(self) ==
    LET c == resolve_context(self.message, bot_id)
    IN  [op |-> "retrieve_data", chat_id |-> c[1], user_id |-> c[2],
         business_connection_id |-> c[3], bot_id |-> c[4],
         message_thread_id |-> c[5], state |-> NoArg, kwargs |-> {}]

\* add_data() with business-connection id and message-thread id passed in
\* each other's parameter
add_data_call_swapped(self, kwargs) ==
    LET c == resolve_context(self.message, bot_id)
    IN  [op |-> "add_data", chat_id |-> c[1], user_id |-> c[2],
         business_connection_id |-> c[5], bot_id |-> c[4],
         message_thread_id |-> c[3], state |-> NoArg, kwargs |-> kwargs]

\* the external call of add_data(): self.bot.add_data(..., **kwargs)
add_data_call(self, kwargs) ==
    LET c == resolve_context(self.message, bot_id)
    IN  [op |-> "add_data", chat_id |-> c[1], user_id |-> c[2],
         business_connection_id |-> c[3], bot_id |-> c[4],
         message_thread_id |-> c[5], state |-> NoArg, kwargs |-> kwargs]

\* a method that catches what the external call raises and returns None
return_await_swallowed(outcome) ==
    IF outcome.kind = "raise" THEN [kind |-> "return", v |-> PyNone] ELSE outcome

\* `return await self.bot.f(...)' / `return self.bot.f(...)': the method's
\* outcome is the external call's outcome, returned or raised
return_await(outcome) == outcome

\* a method of instance i reaches its external call and awaits it
Start(i, method, arg, calls) ==
    /\ pending[i] = NoPending
    /\ pending' = [pending EXCEPT ![i] =
                      [method |-> method, arg |-> arg, calls |-> calls]]
    /\ invoked' = invoked \cup {calls[n].op : n \in 1..Len(calls)}
    /\ expect' = IF calls[1].op = "get_state" THEN expect
                 ELSE [expect EXCEPT ![CallKey(calls[1])] = NoExpect]
    /\ nops' = nops + 1
    /\ UNCHANGED <<bot_id, ctx, store, last>>

set(i, state) == Start(i, "set", state, <<set_call(ctx[i], state)>>)

get(i) == Start(i, "get", NoArg, <<get_call(ctx[i])>>)

delete(i) == Start(i, "delete", NoArg, <<delete_call(ctx[i])>>)

reset_data(i) == Start(i, "reset_data", NoArg, <<reset_data_call(ctx[i])>>)

\* add_data() as a read-modify-write: the stored data fetched first
add_data_rmw(i, kwargs) ==
    Start(i, "add_data", PyDict(kwargs),
          <<data_call(ctx[i]), add_data_call(ctx[i], kwargs)>>)

add_data(i, kwargs) ==
    Start(i, "add_data", PyDict(kwargs), <<add_data_call(ctx[i], kwargs)>>)

\* data() awaits nothing: resolution, the external call and the return are
\* one step
data(i) ==
    LET call == data_call(ctx[i])
        k == CallKey(call)
    IN  /\ pending[i] = NoPending
        /\ \E ext \in {Returned(StoreReturn(call, store[k]))}
                         \cup {Raised(e) : e \in Errors} :
              last' = [ctx |-> i, method |-> "data", arg |-> NoArg, call |-> call,
                       pre |-> store[k], ext |-> ext, result |-> return_await(ext)]
        /\ invoked' = invoked \cup {call.op}
        /\ expect' = [expect EXCEPT ![k] = NoExpect]
        /\ nops' = nops + 1
        /\ UNCHANGED <<bot_id, ctx, pending, store>>

\* another StateContext instance awaits an external call on tuple k
OtherPendingOn(i, k) ==
    \E j \in Contexts \ {i} :
        /\ pending[j] # NoPending
        /\ CallKey(pending[j].calls[1]) = k

\* the awaited external call of instance i returns
ExternalReturn(i) ==
    /\ pending[i] # NoPending
    /\ LET call == pending[i].calls[1]
           k == CallKey(call)
           ext == Returned(StoreReturn(call, store[k]))
       IN  /\ store' = [store EXCEPT ![k] = StoreEffect(call, store[k])]
           /\ last' = [ctx |-> i, method |-> pending[i].method,
                       arg |-> pending[i].arg, call |-> call, pre |-> store[k],
                       ext |-> ext, result |-> return_await(ext)]
           /\ expect' =
                 IF call.op = "get_state" THEN expect
                 ELSE IF call.op = "set_state" /\ ~OtherPendingOn(i, k)
                      THEN [expect EXCEPT ![k] = pending[i].arg.s]
                      ELSE [expect EXCEPT ![k] = NoExpect]
    /\ pending' = [pending EXCEPT ![i] = NoPending]
    /\ UNCHANGED <<bot_id, ctx, invoked, nops>>

\* the awaited external call of instance i raises
ExternalRaise(i, e) ==
    /\ pending[i] # NoPending
    /\ LET call == pending[i].calls[1]
           k == CallKey(call)
           ext == Raised(e)
       IN  /\ last' = [ctx |-> i, method |-> pending[i].method,
                       arg |-> pending[i].arg, call |-> call, pre |-> store[k],
                       ext |-> ext, result |-> return_await(ext)]
           /\ expect' = IF call.op = "get_state" THEN expect
                        ELSE [expect EXCEPT ![k] = NoExpect]
    /\ pending' = [pending EXCEPT ![i] = NoPending]
    /\ UNCHANGED <<bot_id, ctx, store, invoked, nops>>

\* the bot's owner assigns bot.bot_id
SetBotId(b) ==
    /\ b # bot_id
    /\ bot_id' = b
    /\ UNCHANGED <<ctx, pending, store, last, invoked, expect, nops>>

\* __init__ of each instance: self.message, self.bot, self.bot_id
Init ==
    /\ bot_id = 10
    /\ ctx \in [Contexts -> {[message |-> m, bot_id |-> bot_id] : m \in Messages}]
    /\ pending = [i \in Contexts |-> NoPending]
    /\ store = [k \in Keys |-> EmptyEntry]
    /\ last = NoLast
    /\ invoked = {}
    /\ expect = [k \in Keys |-> NoExpect]
    /\ nops = 0

\* both instances built from one update; the second stays idle
InitOne == Init /\ ctx[2].message = ctx[1].message

\* a facade operation may start while fewer than `bound' have
CanStart(bound) == nops < bound

\* two StateContext instances, their operations interleaved
Next ==
    \/ \E i \in Contexts, state \in SetArgs : CanStart(MaxOps) /\ set(i, state)
    \/ \E i \in Contexts : CanStart(MaxOps) /\ get(i)
    \/ \E i \in Contexts : CanStart(MaxOps) /\ delete(i)
    \/ \E i \in Contexts : CanStart(MaxOps) /\ reset_data(i)
    \/ \E i \in Contexts : CanStart(MaxOps) /\ data(i)
    \/ \E i \in Contexts, kwargs \in KwargsArgs :
          CanStart(MaxOps) /\ add_data(i, kwargs)
    \/ \E i \in Contexts : ExternalReturn(i)
    \/ \E i \in Contexts, e \in Errors : ExternalRaise(i, e)

Spec == Init /\ [][Next]_vars

\* one StateContext instance, its operations one after the other
NextSeq ==
    \/ \E state \in SetArgs : CanStart(MaxSeqOps) /\ set(1, state)
    \/ CanStart(MaxSeqOps) /\ get(1)
    \/ CanStart(MaxSeqOps) /\ delete(1)
    \/ CanStart(MaxSeqOps) /\ reset_data(1)
    \/ CanStart(MaxSeqOps) /\ data(1)
    \/ \E kwargs \in KwargsArgs : CanStart(MaxSeqOps) /\ add_data(1, kwargs)
    \/ ExternalReturn(1)
    \/ \E e \in Errors : ExternalRaise(1, e)

SpecSeq == InitOne /\ [][NextSeq]_vars

\* one StateContext instance, while the bot's owner reassigns bot.bot_id
NextBot ==
    \/ \E state \in SetArgs : CanStart(MaxBotOps) /\ set(1, state)
    \/ CanStart(MaxBotOps) /\ get(1)
    \/ CanStart(MaxBotOps) /\ delete(1)
    \/ CanStart(MaxBotOps) /\ reset_data(1)
    \/ CanStart(MaxBotOps) /\ data(1)
    \/ \E kwargs \in KwargsArgs : CanStart(MaxBotOps) /\ add_data(1, kwargs)
    \/ ExternalReturn(1)
    \/ \E e \in Errors : ExternalRaise(1, e)
    \/ \E b \in BotIds : SetBotId(b)

SpecBot == InitOne /\ [][NextBot]_vars

(***************************************************************************)
(* Properties.                                                             *)
(***************************************************************************)
\* what resolve_context returns for (self.message, self.bot.bot_id) now
Resolved(i) == resolve_context(ctx[i].message, bot_id)

\* this step, a method of instance i makes its external call and awaits it
Starts(i) == pending[i] = NoPending /\ pending'[i] # NoPending

\* this step, the awaited external call of instance i ends
Completes(i) == pending[i] # NoPending /\ pending'[i] = NoPending

\* this step is a whole run of data()
DataRuns == nops' # nops /\ pending' = pending

\* C1: every one of the six operations hands its external call exactly the
\* tuple resolve_context returns for (self.message, self.bot.bot_id), each
\* component in the parameter of its own name.
C1_ForwardsResolvedTuple ==
    [][/\ \A i \in Contexts :
             Starts(i) =>
                LET call == pending'[i].calls[1]
                    c == Resolved(i)
                IN  /\ call.chat_id = c[1]
                    /\ call.user_id = c[2]
                    /\ call.business_connection_id = c[3]
                    /\ call.bot_id = c[4]
                    /\ call.message_thread_id = c[5]
       /\ DataRuns =>
             LET call == last'.call
                 c == Resolved(last'.ctx)
             IN  /\ call.chat_id = c[1]
                 /\ call.user_id = c[2]
                 /\ call.business_connection_id = c[3]
                 /\ call.bot_id = c[4]
                 /\ call.message_thread_id = c[5]]_vars

\* add_data() awaits its call for a callback update with all five components
\* set, after data() ran and the bot's id was reassigned
C1_Witness ==
    /\ pending[1].method = "add_data"
    /\ CallKey(pending[1].calls[1]) = <<1, 2, "bc1", 20, "t7">>
    /\ last.method = "data"
    /\ CallKey(last.call) = <<1, 2, "bc1", 10, "t7">>

\* the external operation each StateContext method calls
ExternalOf(method) ==
    CASE method = "set" -> "set_state"
      [] method = "get" -> "get_state"
      [] method = "delete" -> "delete_state"
      [] method = "reset_data" -> "reset_data"
      [] method = "data" -> "retrieve_data"
      [] method = "add_data" -> "add_data"

\* each method calls its own external operation, whenever it runs
SameOperationEachTime ==
    /\ \A i \in Contexts :
          pending[i] # NoPending =>
             \A n \in 1..Len(pending[i].calls) :
                pending[i].calls[n].op = ExternalOf(pending[i].method)
    /\ last.method # "none" => last.call.op = ExternalOf(last.method)
    /\ invoked \subseteq
          {ExternalOf(m) : m \in {"set", "get", "delete", "reset_data", "data", "add_data"}}

\* C2 as stated: over any sequence of method calls at most five distinct
\* external operations are called, each method always calling the same one.
C2_AtMostFiveOperations ==
    /\ Cardinality(invoked) <= 5
    /\ SameOperationEachTime

\* C2, amended: over any sequence of method calls at most six distinct
\* external operations are called (set_state, get_state, delete_state,
\* reset_data, retrieve_data, add_data), each method always calling the same one.
C2_AtMostSixOperations ==
    /\ Cardinality(invoked) <= 6
    /\ SameOperationEachTime

\* all six methods have run, and six external operations were called
C2_Witness ==
    /\ Cardinality(invoked) = 6
    /\ nops = 6
    /\ last.method = "data"

\* the str a set() argument stands for: the State's name, or the str itself
NameOf(state) == PyStr(state.s)

\* C3: set() forwards the name of a State object and forwards a str
\* unchanged, so set(S) and set(S.name) make the same external call and
\* leave the same state in the store.
C3_StateOrName ==
    /\ [](\A i \in Contexts :
             pending[i].method = "set" =>
                /\ pending[i].arg.type = "State" =>
                      pending[i].calls[1].state = PyStr(pending[i].arg.s)
                /\ pending[i].arg.type = "str" =>
                      pending[i].calls[1].state = pending[i].arg
                /\ \A j \in Contexts :
                      /\ pending[j].method = "set"
                      /\ ctx[j].message = ctx[i].message
                      /\ NameOf(pending[j].arg) = NameOf(pending[i].arg)
                      => pending[j].calls = pending[i].calls)
    /\ [][\A i \in Contexts :
             Completes(i) /\ pending[i].method = "set" /\ last'.ext.kind = "return" =>
                store'[Resolved(i)] =
                   [store[Resolved(i)] EXCEPT !.state = NameOf(pending[i].arg)]]_vars

\* set(S) and set(S.name) of two instances built from one message await the
\* same external call, after a set(S) left the name in the store
C3_Witness ==
    /\ pending[1].method = "set" /\ pending[1].arg = PyState("A")
    /\ pending[2].method = "set" /\ pending[2].arg = PyStr("A")
    /\ ctx[1].message = ctx[2].message
    /\ pending[1].calls = pending[2].calls
    /\ last.method = "set" /\ last.arg = PyState("A") /\ last.ext.kind = "return"
    /\ store[Resolved(1)].state = PyStr("A")

\* C4: once set(s) has returned for an addressing tuple and no other
\* operation on that tuple has started or ended since, get() of a
\* StateContext built from the same message and bot returns the name of s.
C4_GetAfterSet ==
    [][\A i \in Contexts :
          /\ Completes(i)
          /\ pending[i].method = "get"
          /\ last'.result.kind = "return"
          /\ expect[Resolved(i)] # NoExpect
          => last'.result.v = PyStr(expect[Resolved(i)])]_vars

\* instance 2, built from the message of instance 1, gets the name of the
\* State object instance 1 set
C4_Witness ==
    /\ last.method = "get"
    /\ last.ctx = 2
    /\ ctx[1].message = ctx[2].message
    /\ expect[Resolved(2)] = "A"
    /\ last.pre.state = PyStr("A")
    /\ last.result = Returned(PyStr("A"))
    /\ invoked = {"set_state", "get_state"}
    /\ nops = 2

\* C5: when delete() returns, the addressing tuple has no state and no
\* data, whatever set() and add_data() calls went before.
C5_DeleteClearsStateAndData ==
    [][\A i \in Contexts :
          /\ Completes(i)
          /\ pending[i].method = "delete"
          /\ last'.result.kind = "return"
          => /\ store'[Resolved(i)].state = PyNone
             /\ store'[Resolved(i)].data = {}]_vars

\* delete() returned for a tuple that had a state and data
C5_Witness ==
    /\ last.method = "delete"
    /\ last.result.kind = "return"
    /\ last.pre.state = PyStr("B")
    /\ last.pre.data = {<<"x", "2">>}
    /\ store[Resolved(last.ctx)] = EmptyEntry

\* C6: when reset_data() returns, the addressing tuple has the state it had
\* before and no data.
C6_ResetDataKeepsState ==
    [][\A i \in Contexts :
          /\ Completes(i)
          /\ pending[i].method = "reset_data"
          /\ last'.result.kind = "return"
          => /\ store'[Resolved(i)].state = store[Resolved(i)].state
             /\ store'[Resolved(i)].data = {}]_vars

\* reset_data() returned for a tuple that had a state and data
C6_Witness ==
    /\ last.method = "reset_data"
    /\ last.result.kind = "return"
    /\ last.pre.state = PyStr("A")
    /\ last.pre.data = {<<"x", "1">>}
    /\ store[Resolved(last.ctx)] = [state |-> PyStr("A"), data |-> {}]

\* C7: every operation returns what its external call returned and raises
\* what it raised, and the end of the external call is the end of the
\* operation: no further external call, no retry.
C7_OutcomePropagated ==
    /\ [](last.result = last.ext)
    /\ [][\A i \in Contexts :
             pending[i] # NoPending /\ pending'[i] # pending[i] =>
                /\ pending'[i] = NoPending
                /\ nops' = nops
                /\ invoked' = invoked
                /\ last'.ctx = i
                /\ last'.method = pending[i].method]_vars

\* add_data() raised what the external add_data raised; nothing is pending
C7_Witness ==
    /\ last.method = "add_data"
    /\ last.ext = Raised("StorageError")
    /\ last.result = Raised("StorageError")
    /\ pending[last.ctx] = NoPending
    /\ nops = 1

\* C8: an operation of one StateContext leaves untouched the state and data
\* stored for the tuple of any StateContext whose resolved tuple differs.
C8_ScopedByTuple ==
    [][\A i, j \in Contexts :
          /\ pending'[i] # pending[i]
          /\ Resolved(i) # Resolved(j)
          => store'[Resolved(j)] = store[Resolved(j)]]_vars

\* instance 1 set a state for its tuple; the state and data of instance 2's
\* tuple are as instance 2 left them
C8_Witness ==
    /\ last.method = "set" /\ last.ctx = 1 /\ last.result.kind = "return"
    /\ Resolved(1) # Resolved(2)
    /\ store[Resolved(1)].state = PyStr("B")
    /\ store[Resolved(2)] = [state |-> PyStr("A"), data |-> {}]
    /\ ctx[1].message.chat_id = ctx[2].message.from_user_id
    /\ ctx[1].message.from_user_id = ctx[2].message.chat_id

\* C9: an operation is one resolution and one external call: it awaits
\* exactly one call, never writes the fields of the instance, and the store
\* changes only when that one call ends, at that call's tuple alone.
C9_OneCallPerOperation ==
    /\ [](\A i \in Contexts :
             pending[i] # NoPending => Len(pending[i].calls) = 1)
    /\ [][/\ ctx' = ctx
          /\ Cardinality(invoked' \ invoked) <= 1
          /\ store' # store =>
                \E i \in Contexts :
                   /\ Completes(i)
                   /\ \A k \in Keys \ {CallKey(pending[i].calls[1])} :
                         store'[k] = store[k]]_vars

\* two instances await calls on one tuple at once, after a call of one of
\* them changed the store
C9_Witness ==
    /\ pending[1].method = "add_data"
    /\ pending[2].method = "delete"
    /\ CallKey(pending[1].calls[1]) = CallKey(pending[2].calls[1])
    /\ last.method = "set"
    /\ store[Resolved(1)].state = PyStr("A")

\* C10: each call resolves with the bot's id as it is at the call, not with
\* the id the constructor captured: a get() started after the id changed
\* addresses another tuple than the set() before the change, and calls made
\* under one id address one tuple.
C10_BotIdReadAtCall ==
    [][/\ \A i \in Contexts :
          Starts(i) =>
             LET call == pending'[i].calls[1]
             IN  /\ call.bot_id = bot_id
                 /\ last.ctx = i /\ last.call.bot_id # bot_id =>
                       CallKey(call) # CallKey(last.call)
                 /\ last.ctx = i /\ last.call.bot_id = bot_id =>
                       CallKey(call) = CallKey(last.call)
       /\ DataRuns => last'.call.bot_id = bot_id]_vars

\* get() awaits a call under the new bot id, not the captured one, on
\* another tuple than the set() that ended before the change
C10_Witness ==
    /\ pending[1].method = "get"
    /\ pending[1].calls[1].bot_id = 20
    /\ ctx[1].bot_id = 10
    /\ last.method = "set" /\ last.ctx = 1
    /\ last.call.bot_id = 10
    /\ CallKey(pending[1].calls[1]) # CallKey(last.call)

====
